---- MODULE Spec2Model ----
(***************************************************************************)
(* grep-nixos-cache (src/src/main.rs): the pre-flight of main (target      *)
(* collection, backend selection, matcher selection), the per-target       *)
(* pipeline find_matches_in_path and the buffer_unordered engine loop.     *)
(*                                                                         *)
(* Strings are sequences of one-character strings, byte buffers are        *)
(* sequences of small naturals, Option is a sequence of length 0 or 1 and  *)
(* Result is a record [ok, val, err].  An error is its anyhow context      *)
(* chain, outermost context first.  Decimal numbers that do not fit TLC's  *)
(* integers (usize is 64 bits wide) are kept as digit sequences.           *)
(***************************************************************************)
EXTENDS Integers, Sequences, FiniteSets, TLC

\* ------------------------------------------------------------- bounds
MaxParallelism == 2
MaxSmallBatch == 3
MaxSuffixLen == 3
MaxLines == 4

\* ---------------------------------------------------- program constants
PATHS_COUNT_AWS_THRESHOLD == 50
NIX_CACHE_REGION == "us-east-1"
NIX_CACHE_S3_BUCKET == "nix-cache"
NIX_CACHE_CDN_URL == "https://cache.nixos.org"
NOT_FOUND_CODE == 403
S3_OK_CODE == 200
PROGRESS_EVERY == 1000

\* ------------------------------------------------------------ evaluation
\* Bind(v, F) is F(v) with v evaluated once: the value of a Rust `let`.  (A
\* LET definition is evaluated again at each of its uses.)
Bind(v, F(_)) == CHOOSE r \in {F(x) : x \in {v}} : TRUE

\* ------------------------------------------------------ Option, Result
None == <<>>
Some(v) == <<v>>
IsSome(o) == Len(o) = 1

Ok(v) == [ok |-> TRUE, val |-> v, err |-> <<>>, panic |-> FALSE]
Err(chain) == [ok |-> FALSE, val |-> <<>>, err |-> chain, panic |-> FALSE]
\* A panic unwinds through every ? and context of the task.
Panic(msg) == [ok |-> FALSE, val |-> <<>>, err |-> <<[msg |-> msg, arg |-> <<>>]>>, panic |-> TRUE]

\* One link of an anyhow chain: a message and the value formatted into it.
E(msg) == [msg |-> msg, arg |-> None]
EA(msg, a) == [msg |-> msg, arg |-> Some(a)]

\* anyhow::Context for Result: wrap an error, leave a success alone.
Context(res, link) ==
  Bind(res, LAMBDA r : IF r.ok \/ r.panic THEN r ELSE Err(<<link>> \o r.err))
\* anyhow::Context for Option: None becomes an error.
OptContext(opt, msg) ==
  Bind(opt, LAMBDA o : IF IsSome(o) THEN Ok(o[1]) ELSE Err(<<E(msg)>>))

\* ---------------------------------------------------------------- str
strip_prefix(s, p) ==
  IF Len(s) >= Len(p) /\ SubSeq(s, 1, Len(p)) = p
  THEN Some(SubSeq(s, Len(p) + 1, Len(s)))
  ELSE None

\* (a split at the last occurrence, as str::rsplit_once does)
split_once_last(s, c) ==
  IF \E i \in 1..Len(s) : s[i] = c
  THEN LET i == CHOOSE k \in 1..Len(s) : s[k] = c /\ \A j \in (k + 1)..Len(s) : s[j] # c
       IN Some(<<SubSeq(s, 1, i - 1), SubSeq(s, i + 1, Len(s))>>)
  ELSE None

split_once(s, c) ==
  IF \E i \in 1..Len(s) : s[i] = c
  THEN LET i == CHOOSE k \in 1..Len(s) : s[k] = c /\ \A j \in 1..(k - 1) : s[j] # c
       IN Some(<<SubSeq(s, 1, i - 1), SubSeq(s, i + 1, Len(s))>>)
  ELSE None

strip_cr(l) ==
  Bind(l, LAMBDA x : IF Len(x) > 0 /\ x[Len(x)] = "\r" THEN SubSeq(x, 1, Len(x) - 1) ELSE x)

\* str::lines: split at "\n", drop one trailing "\r" of each line; a final
\* empty piece (the text ended with "\n", or was empty) is no line.
\* `ends` holds the position after each piece: every "\n" and the end of text.
lines(text) ==
  Bind(text, LAMBDA s :
    Bind({i \in 1..Len(s) : s[i] = "\n"} \cup {Len(s) + 1}, LAMBDA ends :
      Bind(Cardinality(ends) - (IF Len(s) = 0 \/ s[Len(s)] = "\n" THEN 1 ELSE 0), LAMBDA n :
        SubSeq([k \in 1..n |->
                  LET e == CHOOSE x \in ends : Cardinality({j \in ends : j <= x}) = k
                      before == {j \in ends : j < e}
                      start == IF before = {} THEN 1
                               ELSE (CHOOSE x \in before : \A j \in before : j <= x) + 1
                  IN strip_cr(SubSeq(s, start, e - 1))],
               1, n))))

\* Does needle occur in haystack as a contiguous run (Searcher::search_in(..).is_some()).
search_in(needle, haystack) ==
  \E i \in 0..(Len(haystack) - Len(needle)) :
    SubSeq(haystack, i + 1, i + Len(needle)) = needle

\* ------------------------------------------------- decimal numbers (usize)
Digits == <<"0", "1", "2", "3", "4", "5", "6", "7", "8", "9">>
IsDigit(c) == \E i \in 1..10 : Digits[i] = c
DigitVal(c) == (CHOOSE i \in 1..10 : Digits[i] = c) - 1

RECURSIVE StripZeros(_)
StripZeros(d) == IF Len(d) > 1 /\ Head(d) = "0" THEN StripZeros(Tail(d)) ELSE d

\* a <= b for digit sequences without leading zeros
RECURSIVE LexLeq(_, _)
LexLeq(a, b) ==
  IF a = <<>> THEN TRUE
  ELSE IF DigitVal(Head(a)) # DigitVal(Head(b)) THEN DigitVal(Head(a)) < DigitVal(Head(b))
  ELSE LexLeq(Tail(a), Tail(b))

BigLeq(a, b) == Len(a) < Len(b) \/ (Len(a) = Len(b) /\ LexLeq(a, b))

\* usize::MAX = 2^64 - 1 and isize::MAX = 2^63 - 1 on the 64-bit build
USIZE_MAX == <<"1","8","4","4","6","7","4","4","0","7","3","7","0","9","5","5","1","6","1","5">>
ISIZE_MAX == <<"9","2","2","3","3","7","2","0","3","6","8","5","4","7","7","5","8","0","7">>

\* (a parse into an integer of any width)
parse_usize_any_width(s) ==
  Bind(IF Len(s) > 0 /\ Head(s) = "+" THEN Tail(s) ELSE s, LAMBDA body :
    IF body = <<>> THEN Err(<<E("cannot parse integer from empty string")>>)
    ELSE IF \E i \in 1..Len(body) : ~IsDigit(body[i])
    THEN Err(<<E("invalid digit found in string")>>)
    ELSE Ok(StripZeros(body)))

\* str::parse::<usize>: an optional "+", then one or more digits, no overflow.
parse_usize(s) ==
  Bind(IF Len(s) > 0 /\ Head(s) = "+" THEN Tail(s) ELSE s, LAMBDA body :
    IF body = <<>> THEN Err(<<E("cannot parse integer from empty string")>>)
    ELSE IF \E i \in 1..Len(body) : ~IsDigit(body[i])
    THEN Err(<<E("invalid digit found in string")>>)
    ELSE Bind(StripZeros(body), LAMBDA digits :
           IF ~BigLeq(digits, USIZE_MAX)
           THEN Err(<<E("number too large to fit in target type")>>)
           ELSE Ok(digits)))

\* Vec::with_capacity(n) for a Vec<u8>: panics ("capacity overflow") above isize::MAX.
with_capacity_ok(n) == BigLeq(n, ISIZE_MAX)

\* -------------------------------------------------------------- matcher
\* flags.needle as given on the command line, and the two rule-set files an
\* operator may name: one that compiles to two rules, one that does not compile.
NEEDLE == <<1, 2>>
GoodRules == <<[identifier |-> "rule_a", pattern |-> <<1, 2>>],
               [identifier |-> "rule_b", pattern |-> <<2>>]>>

StringMatcher_new(needle) == [kind |-> "String", needle |-> needle, rules |-> <<>>]
YaraMatcher_new(rules_file) ==
  IF rules_file = "good.yar"
  THEN Ok([kind |-> "Yara", needle |-> <<>>, rules |-> GoodRules])
  ELSE Err(<<E("yara compile error")>>)

RECURSIVE scan_mem(_, _)
scan_mem(rules, haystack) ==
  IF rules = <<>> THEN <<>>
  ELSE (IF search_in(Head(rules).pattern, haystack) THEN <<Head(rules).identifier>> ELSE <<>>)
       \o scan_mem(Tail(rules), haystack)

\* Matcher::matches; scanFails is the rule engine failing or timing out on this buffer.
matches(matcher, haystack, scanFails) ==
  IF matcher.kind = "String"
  THEN IF search_in(matcher.needle, haystack) THEN Ok(<<"needle">>) ELSE Ok(<<>>)
  ELSE IF scanFails THEN Err(<<E("yara scan error")>>)
  ELSE Ok(scan_mem(matcher.rules, haystack))

\* ------------------------------------------------------------- multimap
MultiMap_new == [k \in {} |-> <<>>]
\* (an insert that replaces the values of the key, as a plain map's does)
MultiMap_insert_replaces(map, k, v) ==
  Bind(map, LAMBDA mm : [x \in DOMAIN mm \cup {k} |-> IF x = k THEN <<v>> ELSE mm[x]])
MultiMap_insert(map, k, v) ==
  Bind(map, LAMBDA mm :
    [x \in DOMAIN mm \cup {k} |->
       IF x = k THEN (IF k \in DOMAIN mm THEN Append(mm[k], v) ELSE <<v>>) ELSE mm[x]])
MultiMap_is_empty(mm) == DOMAIN mm = {}

\* ---------------------------------------------------------- hash_from_path
NIX_STORE_PREFIX == <<"/", "n", "i", "x", "/", "s", "t", "o", "r", "e", "/">>

hash_from_path(path) ==
  Bind(OptContext(strip_prefix(path, NIX_STORE_PREFIX), "Path does not start with /nix/store/"),
       LAMBDA basename :
    IF ~basename.ok THEN basename
    ELSE Bind(OptContext(split_once(basename.val, "-"), "No - in path basename"),
              LAMBDA parts : IF ~parts.ok THEN parts ELSE Ok(parts.val[1])))

\* ----------------------------------------------------------- parse_narinfo
URL_KEY == <<"U", "R", "L", ":", " ">>
COMPRESSION_KEY == <<"C", "o", "m", "p", "r", "e", "s", "s", "i", "o", "n", ":", " ">>
NARSIZE_KEY == <<"N", "a", "r", "S", "i", "z", "e", ":", " ">>

\* One turn of the for loop of parse_narinfo: line l read into the three
\* Option locals acc.  A NarSize value that does not parse is an error.
parse_narinfo_line(l, acc) ==
  Bind(strip_prefix(l, URL_KEY), LAMBDA u :
    IF IsSome(u) THEN Ok([acc EXCEPT !.nar_url = Some(u[1])])
    ELSE Bind(strip_prefix(l, COMPRESSION_KEY), LAMBDA c :
      IF IsSome(c) THEN Ok([acc EXCEPT !.compression = Some(c[1])])
      ELSE Bind(strip_prefix(l, NARSIZE_KEY), LAMBDA n :
        IF IsSome(n)
        THEN Bind(Context(parse_usize(n[1]), E("Invalid NarSize")), LAMBDA v :
               IF v.ok THEN Ok([acc EXCEPT !.nar_size = Some(v.val)]) ELSE v)
        ELSE Ok(acc))))

\* The loop from line i on; an error returns at once.
RECURSIVE parse_narinfo_loop(_, _, _)
parse_narinfo_loop(ls, i, acc) ==
  IF i > Len(ls) THEN Ok(acc)
  ELSE Bind(parse_narinfo_line(ls[i], acc), LAMBDA step :
         IF step.ok THEN parse_narinfo_loop(ls, i + 1, step.val) ELSE step)

parse_narinfo(text) ==
  Bind(lines(text), LAMBDA ls :
    Bind(parse_narinfo_loop(ls, 1, [nar_url |-> None, compression |-> None, nar_size |-> None]),
         LAMBDA r :
      IF ~r.ok THEN r
      ELSE IF ~IsSome(r.val.nar_url) THEN Err(<<E("Did not find a NAR URL key")>>)
      ELSE IF ~IsSome(r.val.compression) THEN Err(<<E("Did not a NAR Compression key")>>)
      ELSE IF ~IsSome(r.val.nar_size) THEN Err(<<E("Did not find a NAR NarSize key")>>)
      ELSE Ok([nar_url |-> r.val.nar_url[1],
               compression |-> r.val.compression[1],
               nar_size |-> r.val.nar_size[1]])))

\* ---------------------------------------------------- the cache's contents
\* What the cache serves for one target: the target's path, the answer to the
\* download of its metadata resource and the answer to the download of its
\* archive.  `fail` is a transport failure, `code` the HTTP status of the CDN.
NL == <<"\n">>
NarinfoText(url, compression, size) ==
  <<"S", "t", "o", "r", "e", "P", "a", "t", "h", ":", " ", "p">> \o NL
  \o URL_KEY \o url \o NL
  \o COMPRESSION_KEY \o compression \o NL
  \o NARSIZE_KEY \o size \o NL

XZ == <<"x", "z">>
BZIP2 == <<"b", "z", "i", "p", "2">>
NAR_URL == <<"n", "a", "r", "/", "1">>
TOO_BIG == <<"9","2","2","3","3","7","2","0","3","6","8","5","4","7","7","5","8","0","8">>

StorePath(hash) == NIX_STORE_PREFIX \o hash \o <<"-", "p", "k", "g", "-", "1">>

Dir(path) == [ok |-> TRUE, kind |-> "Directory", path |-> Some(path), size |-> <<"0">>,
              readOk |-> TRUE, data |-> <<>>, scanFails |-> FALSE]
Link(path) == [ok |-> TRUE, kind |-> "Symlink", path |-> Some(path), size |-> <<"0">>,
               readOk |-> TRUE, data |-> <<>>, scanFails |-> FALSE]
File(optPath, data) == [ok |-> TRUE, kind |-> "File", path |-> optPath, size |-> <<"3">>,
                        readOk |-> TRUE, data |-> data, scanFails |-> FALSE]
Broken == [ok |-> FALSE, kind |-> "File", path |-> None, size |-> <<"0">>,
           readOk |-> FALSE, data |-> <<>>, scanFails |-> FALSE]

F_BIN == <<"b", "i", "n">>
F_LIB == <<"l", "i", "b">>
F_DOC == <<"d", "o", "c">>

Body(utf8, text) == [utf8 |-> utf8, text |-> text]
Meta(fail, code, body) == [fail |-> fail, code |-> code, body |-> body]
Nar(fail, xzOk, narOk, entriesOk, entries) ==
  [fail |-> fail, code |-> 200,
   body |-> [xzOk |-> xzOk, narOk |-> narOk, entriesOk |-> entriesOk, entries |-> entries]]

GoodMeta == Meta(FALSE, 200, Body(TRUE, NarinfoText(NAR_URL, XZ, <<"1", "2">>)))
NoNar == Nar(TRUE, FALSE, FALSE, FALSE, <<>>)
GoodEntries == <<Dir(<<>>), File(Some(F_DOC), <<3, 3, 3>>), File(Some(F_BIN), <<0, 1, 2>>),
                 Link(F_LIB)>>
GoodNar == Nar(FALSE, TRUE, TRUE, TRUE, GoodEntries)
Target(path, meta, nar) == [path |-> path, meta |-> meta, nar |-> nar]

Catalogue == <<
  \* 1: the archive holds a directory, a clean file, a matching file, a link
  Target(StorePath(<<"a", "1">>), GoodMeta, GoodNar),
  \* 2: the metadata resource is absent (403)
  Target(StorePath(<<"a", "2">>), Meta(FALSE, 403, Body(FALSE, <<>>)), NoNar),
  \* 3: the metadata names a compression other than xz
  Target(StorePath(<<"a", "3">>),
         Meta(FALSE, 200, Body(TRUE, NarinfoText(NAR_URL, BZIP2, <<"1", "2">>))), GoodNar),
  \* 4: the path lacks the root prefix
  Target(<<"/", "t", "m", "p", "/", "a", "4", "-", "x">>, GoodMeta, GoodNar),
  \* 5: the path has no hyphen after the prefix
  Target(NIX_STORE_PREFIX \o <<"a", "5">>, GoodMeta, GoodNar),
  \* 6: the metadata download fails in transport
  Target(StorePath(<<"a", "6">>), Meta(TRUE, 0, Body(FALSE, <<>>)), NoNar),
  \* 7: status 404 with a body that is well-formed metadata
  Target(StorePath(<<"a", "7">>),
         Meta(FALSE, 404, Body(TRUE, NarinfoText(NAR_URL, XZ, <<"1", "2">>))), GoodNar),
  \* 8: status 500 with a body that is no metadata
  Target(StorePath(<<"a", "8">>),
         Meta(FALSE, 500, Body(TRUE, <<"o", "o", "p", "s">>)), NoNar),
  \* 9: status 200 with a body that is not UTF-8
  Target(StorePath(<<"a", "9">>), Meta(FALSE, 200, Body(FALSE, <<>>)), NoNar),
  \* 10: the metadata lacks the NarSize key
  Target(StorePath(<<"b", "0">>),
         Meta(FALSE, 200, Body(TRUE, URL_KEY \o NAR_URL \o NL \o COMPRESSION_KEY \o XZ)), NoNar),
  \* 11: the archive download fails in transport
  Target(StorePath(<<"b", "1">>), GoodMeta, NoNar),
  \* 12: the payload is no xz stream
  Target(StorePath(<<"b", "2">>), GoodMeta, Nar(FALSE, FALSE, FALSE, FALSE, <<>>)),
  \* 13: the decompressed payload is no archive
  Target(StorePath(<<"b", "3">>), GoodMeta, Nar(FALSE, TRUE, FALSE, FALSE, <<>>)),
  \* 14: a matching file, then an entry that does not parse
  Target(StorePath(<<"b", "4">>), GoodMeta,
         Nar(FALSE, TRUE, TRUE, TRUE, <<File(Some(F_BIN), <<1, 2, 0>>), Broken>>)),
  \* 15: the archive is a single file (the root entry has no path) and it matches
  Target(StorePath(<<"b", "5">>), GoodMeta,
         Nar(FALSE, TRUE, TRUE, TRUE, <<File(None, <<1, 2, 1>>)>>)),
  \* 16: a clean file on which the rule engine fails
  Target(StorePath(<<"b", "6">>), GoodMeta,
         Nar(FALSE, TRUE, TRUE, TRUE,
             <<[File(Some(F_BIN), <<3, 1, 3>>) EXCEPT !.scanFails = TRUE]>>)),
  \* 17: the metadata declares a size above isize::MAX
  Target(StorePath(<<"b", "7">>),
         Meta(FALSE, 200, Body(TRUE, NarinfoText(NAR_URL, XZ, TOO_BIG))), GoodNar),
  \* 18: a file entry declares a size above isize::MAX
  Target(StorePath(<<"b", "8">>), GoodMeta,
         Nar(FALSE, TRUE, TRUE, TRUE,
             <<[File(Some(F_BIN), <<1, 2, 3>>) EXCEPT !.size = TOO_BIG]>>)),
  \* 19: a compression other than xz and a declared size above isize::MAX
  Target(StorePath(<<"b", "9">>),
         Meta(FALSE, 200, Body(TRUE, NarinfoText(NAR_URL, BZIP2, TOO_BIG))), GoodNar),
  \* 20: two files that match (the second one only a rule of the rule set)
  Target(StorePath(<<"c", "0">>), GoodMeta,
         Nar(FALSE, TRUE, TRUE, TRUE,
             <<Dir(<<>>), File(Some(F_BIN), <<1, 2, 0>>), Link(F_DOC),
               File(Some(F_LIB), <<0, 2, 2>>)>>)),
  \* 21: an entry that does not parse, then a file that would match
  Target(StorePath(<<"c", "1">>), GoodMeta,
         Nar(FALSE, TRUE, TRUE, TRUE, <<Broken, File(Some(F_BIN), <<1, 2, 0>>)>>))
>>

NKinds == Len(Catalogue)

\* The paths an operator may type after --path: one of four beginnings (the
\* root prefix, the prefix without its last slash, the prefix after a stray
\* character, nothing) followed by up to MaxSuffixLen characters "a" and "-".
PathAlphabet == <<"a", "-">>
PathPrefixes == <<NIX_STORE_PREFIX,
                  SubSeq(NIX_STORE_PREFIX, 1, Len(NIX_STORE_PREFIX) - 1),
                  <<"x">> \o NIX_STORE_PREFIX,
                  <<>>>>
NSuffixes == 2 ^ (MaxSuffixLen + 1) - 1
NTyped == Len(PathPrefixes) * NSuffixes

\* The n-th string over PathAlphabet, shortest first (0 is the empty string).
RECURSIVE Suffix(_)
Suffix(n) ==
  IF n = 0 THEN <<>>
  ELSE Append(Suffix((n - 1) \div Len(PathAlphabet)),
              PathAlphabet[((n - 1) % Len(PathAlphabet)) + 1])

TypedPath(j) ==
  PathPrefixes[((j - 1) % Len(PathPrefixes)) + 1] \o Suffix((j - 1) \div Len(PathPrefixes))

\* What the cache serves for target k: an entry of the catalogue, or, for a
\* typed path, well-formed metadata and a well-formed archive.
Served(k) ==
  IF k <= NKinds THEN Catalogue[k] ELSE Target(TypedPath(k - NKinds), GoodMeta, GoodNar)

\* --------------------------------------------------------- Fetcher::download
\* The CDN returns whatever status and body the server sends; the object
\* store returns status 200 with the object, or an SdkError when the object
\* is not served.
\* (the download, were the object store to pass the status on as the CDN does)
Fetcher_download_passes_status(fetcher, remote) ==
  IF remote.fail THEN Err(<<E("request error")>>)
  ELSE Ok(<<remote.code, remote.body>>)

Fetcher_download(fetcher, remote) ==
  IF fetcher = "Cdn"
  THEN IF remote.fail THEN Err(<<E("reqwest error")>>)
       ELSE Ok(<<remote.code, remote.body>>)
  ELSE IF remote.fail \/ remote.code \notin 200..299 THEN Err(<<E("SdkError")>>)
       ELSE Ok(<<S3_OK_CODE, remote.body>>)

\* The resource key fetch_narinfo asks for.
narinfo_key(hash) == hash \o <<".", "n", "a", "r", "i", "n", "f", "o">>

fetch_narinfo_parses_403(download) ==
  Bind(download, LAMBDA dl :
    IF ~dl.ok THEN dl
    ELSE IF ~dl.val[2].utf8 THEN Err(<<E("invalid utf-8 sequence")>>)
    ELSE Bind(Context(parse_narinfo(dl.val[2].text), E("Could not parse narinfo file")),
              LAMBDA parsed : IF parsed.ok THEN Ok(Some(parsed.val)) ELSE parsed))

\* fetch_narinfo from the answer of its download on: Result<Option<NarInfo>>.
fetch_narinfo(download) ==
  Bind(download, LAMBDA dl :
    IF ~dl.ok THEN dl
    ELSE IF dl.val[1] = NOT_FOUND_CODE THEN Ok(None)
    ELSE IF ~dl.val[2].utf8 THEN Err(<<E("invalid utf-8 sequence")>>)
    ELSE Bind(Context(parse_narinfo(dl.val[2].text), E("Could not parse narinfo file")),
              LAMBDA parsed : IF parsed.ok THEN Ok(Some(parsed.val)) ELSE parsed))

\* fetch_nar from the answer of its download on: the decoder over the
\* decompressed payload, here the payload's description.
fetch_nar(narinfo, download) ==
  Bind(download, LAMBDA dl :
    IF ~dl.ok THEN dl
    ELSE IF ~with_capacity_ok(narinfo.nar_size) THEN Panic("capacity overflow")
    ELSE IF narinfo.compression = XZ
         THEN IF ~dl.val[2].xzOk THEN Err(<<E("xz decode error")>>)
              ELSE IF ~dl.val[2].narOk THEN Err(<<E("Not a valid NAR file"), E("nar error")>>)
              ELSE Ok(dl.val[2])
    ELSE Err(<<EA("Unknown compression method: ", narinfo.compression)>>))

\* ------------------------------------------------- find_matches_in_path
RECURSIVE insert_tags(_, _, _)
insert_tags(files_matched, key, tags) ==
  IF tags = <<>> THEN files_matched
  ELSE insert_tags(MultiMap_insert(files_matched, key, Head(tags)), key, Tail(tags))

\* The loop over nar.entries() from entry i on.  `scanned` lists the entries
\* whose bytes were handed to the matcher.
RECURSIVE scan_entries(_, _, _, _, _)
\* (the loop, were it to stop at an entry that does not parse and keep its matches)
scan_entries_keeps_matches(matcher, entries, i, files_matched, scanned) ==
  IF i > Len(entries) THEN [res |-> Ok(files_matched), scanned |-> scanned]
  ELSE Bind(entries[i], LAMBDA entry :
    IF ~entry.ok
    THEN [res |-> Ok(files_matched), scanned |-> scanned]
    ELSE IF entry.kind # "File"
    THEN scan_entries(matcher, entries, i + 1, files_matched, scanned)
    ELSE IF ~with_capacity_ok(entry.size)
    THEN [res |-> Panic("capacity overflow"), scanned |-> scanned]
    ELSE IF ~entry.readOk
    THEN [res |-> Err(<<E("io error")>>), scanned |-> scanned]
    ELSE Bind(matches(matcher, entry.data, entry.scanFails), LAMBDA m :
      IF ~m.ok THEN [res |-> m, scanned |-> Append(scanned, i)]
      ELSE IF m.val # <<>> /\ ~IsSome(entry.path)
      THEN [res |-> Panic("called Option::unwrap() on a None value"),
            scanned |-> Append(scanned, i)]
      ELSE Bind(IF m.val = <<>> THEN files_matched
                ELSE insert_tags(files_matched, entry.path[1], m.val), LAMBDA matched :
             Bind(Append(scanned, i), LAMBDA seen :
               scan_entries(matcher, entries, i + 1, matched, seen)))))

\* (the loop, were it to pass over an entry that does not parse)
scan_entries_skips_broken(matcher, entries, i, files_matched, scanned) ==
  IF i > Len(entries) THEN [res |-> Ok(files_matched), scanned |-> scanned]
  ELSE Bind(entries[i], LAMBDA entry :
    IF ~entry.ok \/ entry.kind # "File"
    THEN scan_entries(matcher, entries, i + 1, files_matched, scanned)
    ELSE IF ~with_capacity_ok(entry.size)
    THEN [res |-> Panic("capacity overflow"), scanned |-> scanned]
    ELSE IF ~entry.readOk
    THEN [res |-> Err(<<E("io error")>>), scanned |-> scanned]
    ELSE Bind(matches(matcher, entry.data, entry.scanFails), LAMBDA m :
      IF ~m.ok THEN [res |-> m, scanned |-> Append(scanned, i)]
      ELSE IF m.val # <<>> /\ ~IsSome(entry.path)
      THEN [res |-> Panic("called Option::unwrap() on a None value"),
            scanned |-> Append(scanned, i)]
      ELSE Bind(IF m.val = <<>> THEN files_matched
                ELSE insert_tags(files_matched, entry.path[1], m.val), LAMBDA matched :
             Bind(Append(scanned, i), LAMBDA seen :
               scan_entries(matcher, entries, i + 1, matched, seen)))))

scan_entries(matcher, entries, i, files_matched, scanned) ==
  IF i > Len(entries) THEN [res |-> Ok(files_matched), scanned |-> scanned]
  ELSE Bind(entries[i], LAMBDA entry :
    IF ~entry.ok
    THEN [res |-> Err(<<E("Failed to parse NAR entry"), E("nar error")>>), scanned |-> scanned]
    ELSE IF entry.kind # "File"
    THEN scan_entries(matcher, entries, i + 1, files_matched, scanned)
    ELSE IF ~with_capacity_ok(entry.size)
    THEN [res |-> Panic("capacity overflow"), scanned |-> scanned]
    ELSE IF ~entry.readOk
    THEN [res |-> Err(<<E("io error")>>), scanned |-> scanned]
    ELSE Bind(matches(matcher, entry.data, entry.scanFails), LAMBDA m :
      IF ~m.ok THEN [res |-> m, scanned |-> Append(scanned, i)]
      ELSE IF m.val # <<>> /\ ~IsSome(entry.path)
      THEN [res |-> Panic("called Option::unwrap() on a None value"),
            scanned |-> Append(scanned, i)]
      ELSE Bind(IF m.val = <<>> THEN files_matched
                ELSE insert_tags(files_matched, entry.path[1], m.val), LAMBDA matched :
             Bind(Append(scanned, i), LAMBDA seen :
               scan_entries(matcher, entries, i + 1, matched, seen)))))

SearchOutcome(path, files_matched) == [path |-> path, files_matched |-> files_matched]

\* The context the spawned task puts on the pipeline's result.
analyze_context(res, p) == Context(res, EA("Error while analyzing path ", p))

\* find_matches_in_path up to its first await: the hash.
pipeline_hash(path) == Context(hash_from_path(path), EA("Failed to parse path: ", path))

\* ... from the metadata download's answer to the second await: the descriptor.
pipeline_narinfo(dl) == Context(fetch_narinfo(dl), E("Failed to fetch narinfo"))

\* ... from the archive download's answer to the end.
pipeline_scan(matcher, path, narinfo, dl) ==
  Bind(Context(fetch_nar(narinfo, dl), E("Failed to fetch nar")), LAMBDA nar :
    IF ~nar.ok THEN [res |-> nar, scanned |-> <<>>]
    ELSE IF ~nar.val.entriesOk THEN [res |-> Err(<<E("nar error")>>), scanned |-> <<>>]
    ELSE Bind(scan_entries(matcher, nar.val.entries, 1, MultiMap_new, <<>>), LAMBDA r :
           IF r.res.ok
           THEN [res |-> Ok(SearchOutcome(path, r.res.val)), scanned |-> r.scanned]
           ELSE r))

\* What the future of one target resolves to: the task's output, or the
\* JoinError of a task that panicked, passed through the ? operator.
join_result(res) == IF res.panic THEN Err(<<E("JoinError: task panicked")>>) ELSE res

\* ------------------------------------------------------------------ state
VARIABLES
  flags,      \* the parsed command line
  mainPc,     \* where main is: "parse", "start", "fetcher", "matcher", "engine", "exited"
  exitCode,   \* the process exit status once main is "exited", -1 before
  paths,      \* the targets, each named by its entry in Catalogue
  region,     \* what get_aws_region().unwrap_or("not-aws") gave, "unqueried" before
  fetcher,    \* "none", "Cdn" or "S3"
  matcher,    \* None or Some(the matcher)
  nextFut,    \* the next future the iterator of line 337 will yield
  queue,      \* the futures buffer_unordered holds (in_progress_queue)
  task,       \* per target: the state of its future and of its spawned task
  processed,  \* the counter of line 351
  stdout,     \* the lines main printed that are about no single target
  probe       \* a call of a function on its own: None, or its argument and result

vars == <<flags, mainPc, exitCode, paths, region, fetcher, matcher, nextFut, queue, task,
          processed, stdout, probe>>

\* The targets a --paths file of n lines holds: n consecutive entries of the
\* catalogue (cyclically) from entry `start` on.
Batch(n, start) == [i \in 1..n |-> ((start - 1 + (i - 1)) % NKinds) + 1]

SmallFiles == {<<0, 1>>} \cup {<<n, start>> : n \in 1..MaxSmallBatch, start \in 1..NKinds}
LargeFiles == {<<PATHS_COUNT_AWS_THRESHOLD - 1, 1>>, <<PATHS_COUNT_AWS_THRESHOLD, 1>>,
               <<PATHS_COUNT_AWS_THRESHOLD + 1, 1>>}

TargetSources ==
  {[path |-> Some(k), paths |-> None, hydra_eval_url |-> None] :
     k \in {1} \cup ((NKinds + 1)..(NKinds + NTyped))}
  \cup {[path |-> None, paths |-> None, hydra_eval_url |-> Some("url")],
        [path |-> None, paths |-> None, hydra_eval_url |-> None]}
  \cup {[path |-> None, paths |-> Some(f), hydra_eval_url |-> None] :
          f \in SmallFiles \cup LargeFiles}

PatternSources ==
  {[needle |-> Some(NEEDLE), yara_ruleset |-> None],
   [needle |-> None, yara_ruleset |-> Some("good.yar")],
   [needle |-> None, yara_ruleset |-> Some("bad.yar")],
   [needle |-> None, yara_ruleset |-> None]}

FlagSets ==
  {[needle |-> p.needle, yara_ruleset |-> p.yara_ruleset,
    path |-> t.path, paths |-> t.paths, hydra_eval_url |-> t.hydra_eval_url,
    parallelism |-> n, allow_possibly_expensive_run |-> a] :
     p \in PatternSources, t \in TargetSources, n \in 0..MaxParallelism, a \in BOOLEAN}

\* The command lines explored: the batches at the threshold run one pipeline
\* at a time, the small ones under every limit up to MaxParallelism, the
\* typed paths with --needle under a limit of 1.
IsLarge(f) == IsSome(f.paths) /\ f.paths[1] \in LargeFiles
IsTyped(f) == IsSome(f.path) /\ f.path[1] > NKinds
Runs ==
  {f \in FlagSets :
     /\ IsLarge(f) => f.parallelism <= 1
     /\ IsTyped(f) => /\ f.parallelism = 1 /\ IsSome(f.needle)
                       /\ ~f.allow_possibly_expensive_run}

\* What the instance metadata service may answer.
Regions == {None, Some("us-east-1"), Some("eu-west-1")}

NewTask == [st |-> "iter", narinfo |-> None, dl |-> <<>>, scanned |-> <<>>,
            res |-> None, drains |-> 0, got |-> None, out |-> <<>>]

\* Before Flags::parse has run.
NoFlags == [needle |-> None, yara_ruleset |-> None, path |-> None, paths |-> None,
            hydra_eval_url |-> None, parallelism |-> 0,
            allow_possibly_expensive_run |-> FALSE]

Init ==
  /\ flags = NoFlags
  /\ mainPc = "parse"
  /\ exitCode = -1
  /\ paths = <<>>
  /\ region = "unqueried"
  /\ fetcher = "none"
  /\ matcher = None
  /\ nextFut = 1
  /\ queue = {}
  /\ task = <<>>
  /\ processed = 0
  /\ stdout = <<>>
  /\ probe = None

\* ------------------------------------------------------------ pre-flight
\* Flags::parse: the command line of this run.
ParseFlags ==
  /\ mainPc = "parse"
  /\ flags' \in Runs
  /\ mainPc' = "start"
  /\ UNCHANGED <<probe, exitCode, paths, region, fetcher, matcher, nextFut, queue, task, processed,
                 stdout>>

collect_output_paths(f) ==
  IF IsSome(f.path) THEN <<f.path[1]>>
  ELSE IF IsSome(f.paths) THEN Batch(f.paths[1][1], f.paths[1][2])
  ELSE <<>>

CollectPaths ==
  /\ mainPc = "start"
  /\ paths' = collect_output_paths(flags)
  /\ task' = [t \in 1..Len(paths') |-> NewTask]
  /\ stdout' = IF ~IsSome(flags.path) /\ ~IsSome(flags.paths) /\ IsSome(flags.hydra_eval_url)
               THEN Append(stdout, "Reading output paths from Hydra eval URLs is currently unsupported")
               ELSE stdout
  /\ mainPc' = "fetcher"
  /\ UNCHANGED <<probe, flags, exitCode, region, fetcher, matcher, nextFut, queue, processed>>

unwrap_or(opt, default) == IF IsSome(opt) THEN opt[1] ELSE default

\* Is get_aws_region() awaited: only when the batch is large and the
\* override flag does not short-circuit the condition of line 313.
region_queried(n, allow) == n >= PATHS_COUNT_AWS_THRESHOLD /\ ~allow

select_fetcher_low_threshold(n, allow, detected) ==
  IF n = 0 THEN "empty"
  ELSE IF n >= PATHS_COUNT_AWS_THRESHOLD - 1
       THEN IF ~allow /\ detected # NIX_CACHE_REGION THEN "abort" ELSE "S3"
  ELSE "Cdn"

select_fetcher_unguarded(n, allow, detected) ==
  IF n = 0 THEN "empty" ELSE IF n >= PATHS_COUNT_AWS_THRESHOLD THEN "S3" ELSE "Cdn"

select_fetcher_override_is_cdn(n, allow, detected) ==
  IF n = 0 THEN "empty"
  ELSE IF n >= PATHS_COUNT_AWS_THRESHOLD
       THEN IF detected = NIX_CACHE_REGION THEN "S3" ELSE IF allow THEN "Cdn" ELSE "abort"
  ELSE "Cdn"

\* The if/else chain of lines 309-325: "empty", "abort", "S3" or "Cdn".
select_fetcher(n, allow, detected) ==
  IF n = 0 THEN "empty"
  ELSE IF n >= PATHS_COUNT_AWS_THRESHOLD
       THEN IF ~allow /\ detected # NIX_CACHE_REGION THEN "abort" ELSE "S3"
  ELSE "Cdn"

SelectFetcher ==
  /\ mainPc = "fetcher"
  /\ \E answer \in Regions :
       LET asked == region_queried(Len(paths), flags.allow_possibly_expensive_run)
           detected == IF asked THEN unwrap_or(answer, "not-aws") ELSE "unqueried"
           choice == select_fetcher(Len(paths), flags.allow_possibly_expensive_run, detected)
       IN /\ asked \/ answer = None
          /\ region' = detected
          /\ IF choice = "empty"
             THEN /\ stdout' = Append(stdout, "No paths to check, exiting")
                  /\ mainPc' = "exited" /\ exitCode' = 1 /\ fetcher' = fetcher
             ELSE IF choice = "abort"
             THEN /\ stdout' = Append(stdout, "To avoid unnecessary costs, please run this program in the AWS region")
                  /\ mainPc' = "exited" /\ exitCode' = 1 /\ fetcher' = fetcher
             ELSE /\ stdout' = stdout
                  /\ mainPc' = "matcher" /\ exitCode' = exitCode /\ fetcher' = choice
  /\ UNCHANGED <<probe, flags, paths, matcher, nextFut, queue, task, processed>>

\* Lines 327-335: the matcher, or why there is none.
select_matcher(f) ==
  IF IsSome(f.needle) THEN Ok(StringMatcher_new(f.needle[1]))
  ELSE IF IsSome(f.yara_ruleset)
       THEN LET m == YaraMatcher_new(f.yara_ruleset[1])
            IN IF m.ok THEN m ELSE Panic("Failed to parse Yara ruleset")
  ELSE Err(<<E("No matcher provided, please use either --needle or --yara_ruleset")>>)

SelectMatcher ==
  /\ mainPc = "matcher"
  /\ LET m == select_matcher(flags)
     IN IF m.ok
        THEN /\ matcher' = Some(m.val)
             /\ mainPc' = "engine" /\ exitCode' = exitCode /\ stdout' = stdout
        ELSE /\ matcher' = matcher
             /\ mainPc' = "exited"
             /\ exitCode' = IF m.panic THEN 101 ELSE 1
             /\ stdout' = IF m.panic THEN stdout ELSE Append(stdout, m.err[1].msg)
  /\ UNCHANGED <<probe, flags, paths, region, fetcher, nextFut, queue, task, processed>>

\* ---------------------------------------------------------------- engine
World(t) == Served(paths[t])
PathOf(t) == World(t).path

\* The loop condition of BufferUnordered::poll_next: take one more future
\* from the iterator while fewer than the limit are held.
can_pull_one_more(held, limit, nxt, n) == held <= limit /\ nxt <= n
can_pull(held, limit, nxt, n) == held < limit /\ nxt <= n

PullEnabled == can_pull(Cardinality(queue), flags.parallelism, nextFut, Len(paths))

Pull ==
  /\ mainPc = "engine"
  /\ PullEnabled
  /\ queue' = queue \cup {nextFut}
  /\ task' = [task EXCEPT ![nextFut].st = "queued"]
  /\ nextFut' = nextFut + 1
  /\ UNCHANGED <<probe, flags, mainPc, exitCode, paths, region, fetcher, matcher, processed, stdout>>

Finished(t, res, scanned) ==
  [task[t] EXCEPT !.st = "finished", !.res = Some(analyze_context(res, PathOf(t))),
                  !.scanned = scanned]

\* The first poll of a held future: tokio::spawn, and the task runs to its
\* first await (the hash, then the metadata download is sent).
Spawn(t) ==
  /\ mainPc = "engine"
  /\ ~PullEnabled
  /\ t \in queue /\ task[t].st = "queued"
  /\ \E hash \in {pipeline_hash(PathOf(t))} :
       task' = [task EXCEPT ![t] =
          IF hash.ok
          THEN [@ EXCEPT !.st = "narinfo",
                         !.dl = Append(@, [backend |-> fetcher, key |-> narinfo_key(hash.val)])]
          ELSE Finished(t, hash, <<>>)]
  /\ UNCHANGED <<probe, flags, mainPc, exitCode, paths, region, fetcher, matcher, nextFut, queue,
                 processed, stdout>>

\* The metadata download answers; the task runs to its second await.
NarinfoResponse(t) ==
  /\ t \in DOMAIN task /\ task[t].st = "narinfo"
  /\ \E narinfo \in {pipeline_narinfo(Fetcher_download(fetcher, World(t).meta))} :
       task' = [task EXCEPT ![t] =
          IF ~narinfo.ok THEN Finished(t, narinfo, <<>>)
          ELSE IF ~IsSome(narinfo.val)
               THEN Finished(t, Ok(SearchOutcome(PathOf(t), MultiMap_new)), <<>>)
          ELSE [@ EXCEPT !.st = "nar", !.narinfo = narinfo.val,
                         !.dl = Append(@, [backend |-> fetcher, key |-> narinfo.val[1].nar_url])]]
  /\ UNCHANGED <<probe, flags, mainPc, exitCode, paths, region, fetcher, matcher, nextFut, queue,
                 processed, stdout>>

\* The archive download answers; the task decodes, scans and ends.
NarResponse(t) ==
  /\ t \in DOMAIN task /\ task[t].st = "nar"
  /\ \E r \in {pipeline_scan(matcher[1], PathOf(t), task[t].narinfo[1],
                               Fetcher_download(fetcher, World(t).nar))} :
       task' = [task EXCEPT ![t] = Finished(t, r.res, r.scanned)]
  /\ UNCHANGED <<probe, flags, mainPc, exitCode, paths, region, fetcher, matcher, nextFut, queue,
                 processed, stdout>>

\* The number of text lines the {:?} of an anyhow error takes: the outermost
\* message alone when the error has no cause, else the message, an empty
\* line, "Caused by:" and one line per cause.
anyhow_debug_lines(err) == IF Len(err) = 1 THEN 1 ELSE Len(err) + 2

\* (the loop body, were it to print a result line for every success)
report_every_success(result) ==
  IF result.ok
  THEN <<[kind |-> "Found", path |-> Some(result.val.path),
          files_matched |-> result.val.files_matched, err |-> <<>>, nlines |-> 1]>>
  ELSE <<[kind |-> "Error", path |-> None, files_matched |-> MultiMap_new, err |-> result.err,
          nlines |-> anyhow_debug_lines(result.err)]>>

\* What the body of the while loop prints for one result: one println each,
\* nlines the text lines it takes on the output.
report(result) ==
  IF result.ok
  THEN IF ~MultiMap_is_empty(result.val.files_matched)
       THEN <<[kind |-> "Found", path |-> Some(result.val.path),
               files_matched |-> result.val.files_matched, err |-> <<>>, nlines |-> 1]>>
       ELSE <<>>
  ELSE <<[kind |-> "Error", path |-> None, files_matched |-> MultiMap_new, err |-> result.err,
          nlines |-> anyhow_debug_lines(result.err)]>>

\* Does the loop go on after this result.
loop_stops_on_error(result) == result.ok
loop_continues(result) == TRUE

\* Which held future may stream.next() yield once its task has ended:
\* FuturesUnordered yields any of them.
\* (the stream, were it `buffered`, which yields in the order of submission)
yields_in_order(t, held) == t \in held /\ \A u \in held : t <= u
yields(t, held) == t \in held

\* stream.next() yields the result of a held future whose task has ended,
\* and the loop body runs on it.
Drain(t) ==
  /\ mainPc = "engine"
  /\ ~PullEnabled
  /\ yields(t, queue) /\ task[t].st = "finished"
  /\ LET result == join_result(task[t].res[1])
     IN /\ task' = [task EXCEPT ![t].st = "drained", ![t].got = Some(result),
                                ![t].drains = @ + 1,
                                ![t].out = @ \o report(result)]
        /\ IF loop_continues(result)
           THEN mainPc' = mainPc /\ exitCode' = exitCode
           ELSE mainPc' = "exited" /\ exitCode' = 1
  /\ queue' = queue \ {t}
  /\ processed' = processed + 1
  /\ stdout' = IF processed' % PROGRESS_EVERY = 0 THEN Append(stdout, "Processed") ELSE stdout
  /\ UNCHANGED <<probe, flags, paths, region, fetcher, matcher, nextFut>>

\* Does stream.next() yield None: nothing is held and the iterator was
\* polled to its end (with a limit of 0 it is never polled).
stream_ended_early(held, limit, nxt, n) == held = 0 /\ limit > 0
stream_ended(held, limit, nxt, n) == held = 0 /\ limit > 0 /\ nxt > n

Finish ==
  /\ mainPc = "engine"
  /\ stream_ended(Cardinality(queue), flags.parallelism, nextFut, Len(paths))
  /\ mainPc' = "exited"
  /\ exitCode' = 0
  /\ UNCHANGED <<probe, flags, paths, region, fetcher, matcher, nextFut, queue, task, processed, stdout>>

Next ==
  \/ ParseFlags
  \/ CollectPaths
  \/ SelectFetcher
  \/ SelectMatcher
  \/ Pull
  \/ \E t \in DOMAIN task : Spawn(t)
  \/ \E t \in DOMAIN task : NarinfoResponse(t)
  \/ \E t \in DOMAIN task : NarResponse(t)
  \/ \E t \in DOMAIN task : Drain(t)
  \/ Finish

Spec == Init /\ [][Next]_vars

\* Every started download is assumed to answer and the runtime keeps polling.
FairSpec == Spec /\ WF_vars(Next)

\* The downloads of the first target may never answer (a slow target); every
\* other step is taken in the end.
SlowNext ==
  \/ ParseFlags
  \/ CollectPaths
  \/ SelectFetcher
  \/ SelectMatcher
  \/ Pull
  \/ \E t \in DOMAIN task : Spawn(t)
  \/ \E t \in DOMAIN task \ {1} : NarinfoResponse(t)
  \/ \E t \in DOMAIN task \ {1} : NarResponse(t)
  \/ \E t \in DOMAIN task : Drain(t)
  \/ Finish

SlowSpec == Spec /\ WF_vars(SlowNext)

\* ------------------------------------------------- parse_narinfo on its own
\* The lines a metadata text is made of: the three keys, an unrecognised
\* key, a NarSize that is no number, one that is 2^64, one with a sign, and
\* a second URL.
LinePool == <<
  URL_KEY \o NAR_URL,
  COMPRESSION_KEY \o XZ,
  NARSIZE_KEY \o <<"1", "2">>,
  <<"S", "i", "g", ":", " ", "s">>,
  NARSIZE_KEY \o <<"1", "x">>,
  NARSIZE_KEY \o <<"1","8","4","4","6","7","4","4","0","7","3","7","0","9","5","5","1","6","1","6">>,
  NARSIZE_KEY \o <<"+", "1", "2">>,
  URL_KEY \o <<"n", "a", "r", "/", "2">>
>>

\* The texts: up to MaxLines lines of the pool, each ended by a newline.
LineChoices == UNION {[1..n -> 1..Len(LinePool)] : n \in 0..MaxLines}

RECURSIVE JoinLines(_, _)
JoinLines(choice, i) ==
  IF i > Len(choice) THEN <<>>
  ELSE LinePool[choice[i]] \o NL \o JoinLines(choice, i + 1)

ParseInit ==
  /\ flags = NoFlags
  /\ mainPc = "parse"
  /\ exitCode = -1
  /\ paths = <<>>
  /\ region = "unqueried"
  /\ fetcher = "none"
  /\ matcher = None
  /\ nextFut = 1
  /\ queue = {}
  /\ task = <<>>
  /\ processed = 0
  /\ stdout = <<>>
  /\ \E choice \in LineChoices :
       probe = Some([choice |-> choice, called |-> FALSE, ret |-> Ok(<<>>)])

\* The call parse_narinfo(data) of line 249 on the text of the probe.
ParseNarinfoCall ==
  /\ IsSome(probe) /\ ~probe[1].called
  /\ probe' = Some([probe[1] EXCEPT !.called = TRUE,
                                    !.ret = parse_narinfo(JoinLines(probe[1].choice, 1))])
  /\ UNCHANGED <<flags, mainPc, exitCode, paths, region, fetcher, matcher, nextFut, queue,
                 task, processed, stdout>>

ParseSpec == ParseInit /\ [][ParseNarinfoCall]_vars

\* ================================================================ claims
Targets == DOMAIN task
Started(t) == task[t].st \in {"narinfo", "nar", "finished", "drained"}
Running(t) == task[t].st \in {"narinfo", "nar"}
Drained(t) == task[t].st = "drained"
EngineRan == IsSome(matcher)
BatchOver == mainPc = "exited" /\ EngineRan
IsErrorLine(l) == l.kind = "Error"
IsFoundLine(l) == l.kind = "Found"

RECURSIVE SumDrains(_)
SumDrains(n) == IF n = 0 THEN 0 ELSE task[n].drains + SumDrains(n - 1)

\* What one target's future resolves to when nothing but the target itself,
\* the backend and the matcher of the run is looked at.
SoloOutcome(k, f, m) ==
  LET p == Served(k).path
      hash == pipeline_hash(p)
      narinfo == pipeline_narinfo(Fetcher_download(f, Served(k).meta))
      r == IF ~hash.ok THEN hash
           ELSE IF ~narinfo.ok THEN narinfo
           ELSE IF ~IsSome(narinfo.val) THEN Ok(SearchOutcome(p, MultiMap_new))
           ELSE pipeline_scan(m, p, narinfo.val[1], Fetcher_download(f, Served(k).nar)).res
  IN join_result(analyze_context(r, p))

\* C1: at every moment the number of pipeline executions that were started
\* and have not completed is at most the configured limit.
C1_InFlightWithinLimit ==
  Cardinality({t \in Targets : Running(t)}) <= flags.parallelism

\* C1 witness: the limit is reached while targets are still waiting for a slot.
C1_Witness_LimitReached ==
  /\ flags.parallelism >= 2
  /\ Cardinality({t \in Targets : Running(t)}) = flags.parallelism
  /\ nextFut <= Len(paths)

\* C2: once the engine loop is entered with a limit of at least 1 it
\* terminates, and it terminates only with every target started, completed
\* and counted, however many of them failed.
C2_EngineTerminates ==
  /\ [](BatchOver => /\ processed = Len(paths)
                     /\ \A t \in Targets : Drained(t))
  /\ (mainPc = "engine" /\ flags.parallelism >= 1) ~> BatchOver

\* C2 witness: a batch ended with every target counted and two of them failed.
C2_Witness_EndedWithFailures ==
  /\ BatchOver /\ exitCode = 0
  /\ processed = Len(paths) /\ Len(paths) >= 3
  /\ Cardinality({t \in Targets : ~task[t].got[1].ok}) >= 2

\* Does the archive of target t hold an entry that does not parse after a
\* file the matcher of the run matches.
FailsAfterMatch(t) ==
  LET entries == World(t).nar.body.entries
  IN \E j \in 1..Len(entries) :
       /\ ~entries[j].ok
       /\ \E i \in 1..(j - 1) :
            /\ entries[i].ok /\ entries[i].kind = "File"
            /\ matches(matcher[1], entries[i].data, entries[i].scanFails).ok
            /\ matches(matcher[1], entries[i].data, entries[i].scanFails).val # <<>>

\* C3: the engine drains exactly one result per target, a success carrying
\* the target's path or an error, and a target whose archive fails after
\* some of its files matched yields the error alone, with no match reported.
C3_ExactlyOneResult ==
  /\ processed = SumDrains(Len(task))
  /\ \A t \in Targets :
       /\ task[t].drains <= 1
       /\ (task[t].drains = 1) = Drained(t)
       /\ IsSome(task[t].got) = Drained(t)
       /\ (BatchOver => task[t].drains = 1)
       /\ Drained(t) =>
            LET got == task[t].got[1]
            IN /\ got.ok => /\ got.err = <<>>
                            /\ got.val.path = PathOf(t)
                            /\ \A i \in 1..Len(task[t].out) : IsFoundLine(task[t].out[i])
               /\ ~got.ok => /\ got.val = <<>>
                             /\ Len(task[t].out) = 1
                             /\ IsErrorLine(task[t].out[1])
                             /\ MultiMap_is_empty(task[t].out[1].files_matched)
               /\ (task[t].scanned # <<>> /\ FailsAfterMatch(t)) => ~got.ok

\* C3 witness: a target whose file matched and whose next entry did not
\* parse was drained as an error.
C3_Witness_ErrorAfterMatch ==
  \E t \in Targets :
    /\ Drained(t) /\ task[t].scanned # <<>> /\ FailsAfterMatch(t)
    /\ ~task[t].got[1].ok
    /\ Len(task[t].out) = 1 /\ IsErrorLine(task[t].out[1])

NamesTarget(err, t) == \E i \in 1..Len(err) : err[i].arg = Some(PathOf(t))

\* C5 (as claimed): every error the engine drains names the target whose
\* pipeline failed, an abnormal end of the spawned task included.
C5_EveryErrorNamesTarget ==
  \A t \in Targets :
    (Drained(t) /\ ~task[t].got[1].ok) => NamesTarget(task[t].got[1].err, t)

\* C6: a batch of 1 to 49 targets runs on the CDN backend whatever the
\* override flag, the region is not even asked for, and no download of the
\* run goes to the object store.
C6_SmallBatchUsesCdn ==
  (mainPc \notin {"parse", "start", "fetcher"} /\ Len(paths) >= 1
     /\ Len(paths) < PATHS_COUNT_AWS_THRESHOLD) =>
    /\ fetcher = "Cdn"
    /\ region = "unqueried"
    /\ \A t \in Targets :
         \A i \in 1..Len(task[t].dl) : task[t].dl[i].backend = "Cdn"

\* C6 witness: a batch of 49 targets run with the override flag set ended
\* after downloading metadata and archives.
C6_Witness_FortyNineOnCdn ==
  /\ Len(paths) = PATHS_COUNT_AWS_THRESHOLD - 1
  /\ flags.allow_possibly_expensive_run
  /\ BatchOver
  /\ \E t \in Targets : Len(task[t].dl) = 2

Aborted == mainPc = "exited" /\ exitCode = 1 /\ fetcher = "none"

\* C7: a batch of 50 or more targets without the override flag asks for the
\* region, and when the answer (the sentinel when there is none) is not
\* us-east-1 the run is aborted with a non-zero status: no backend is
\* selected, no pipeline is started and no download is issued.
C7_LargeBatchAborts ==
  (mainPc \notin {"parse", "start", "fetcher"} /\ Len(paths) >= PATHS_COUNT_AWS_THRESHOLD
     /\ ~flags.allow_possibly_expensive_run) =>
    /\ region # "unqueried"
    /\ region # NIX_CACHE_REGION =>
         /\ Aborted
         /\ exitCode # 0
         /\ ~EngineRan /\ queue = {} /\ processed = 0
         /\ \A t \in Targets : task[t].st = "iter" /\ task[t].dl = <<>>

\* C7 witness: 50 targets, no override, region detection failed: aborted.
C7_Witness_AbortOnUnknownRegion ==
  /\ Len(paths) = PATHS_COUNT_AWS_THRESHOLD
  /\ ~flags.allow_possibly_expensive_run
  /\ region = "not-aws"
  /\ Aborted

\* C8: a batch of 50 or more targets runs on the object store when the
\* override flag is set (the region is then not consulted) and when it is
\* not set and the region is us-east-1; the backend is chosen once and every
\* download of the run goes through it.
C8_LargeBatchUsesObjectStore ==
  /\ []((mainPc \notin {"parse", "start", "fetcher"} /\ Len(paths) >= PATHS_COUNT_AWS_THRESHOLD
           /\ (flags.allow_possibly_expensive_run \/ region = NIX_CACHE_REGION)) =>
          /\ fetcher = "S3"
          /\ \A t \in Targets :
               \A i \in 1..Len(task[t].dl) : task[t].dl[i].backend = "S3")
  /\ [][fetcher # "none" => fetcher' = fetcher]_vars

\* C8 witness: 50 targets with the override flag set ended after
\* downloading metadata and archives from the object store.
C8_Witness_OverrideOnObjectStore ==
  /\ Len(paths) = PATHS_COUNT_AWS_THRESHOLD
  /\ flags.allow_possibly_expensive_run
  /\ region = "unqueried"
  /\ BatchOver
  /\ \E t \in Targets :
       Len(task[t].dl) = 2 /\ \A i \in 1..2 : task[t].dl[i].backend = "S3"

\* Does the metadata download of target t answer with this status.
MetaStatus(t, code) ==
  /\ pipeline_hash(PathOf(t)).ok
  /\ fetcher = "Cdn"
  /\ ~World(t).meta.fail /\ World(t).meta.code = code

\* C9: a target whose metadata download answers 403 ends as a success with
\* an empty MatchResult: its body is not parsed, no archive download is
\* issued for it, no error is reported and nothing is printed for it.
C9_NotFoundIsEmptySuccess ==
  \A t \in Targets :
    MetaStatus(t, NOT_FOUND_CODE) =>
      /\ task[t].st # "nar"
      /\ Len(task[t].dl) <= 1
      /\ task[t].scanned = <<>>
      /\ IsSome(task[t].res) =>
           /\ task[t].res[1].ok
           /\ MultiMap_is_empty(task[t].res[1].val.files_matched)
      /\ Drained(t) => task[t].got[1].ok /\ task[t].out = <<>>

\* C9 witness: a target answered with 403, whose body is not even UTF-8,
\* was drained.
C9_Witness_NotFoundDrained ==
  \E t \in Targets :
    /\ MetaStatus(t, NOT_FOUND_CODE) /\ ~World(t).meta.body.utf8
    /\ Drained(t) /\ task[t].got[1].ok /\ Len(task[t].dl) = 1

\* C10 (as claimed): a target whose metadata download answers a status that
\* is neither a success nor 403 ends as an error whatever the body, and no
\* archive download follows.
C10_OtherStatusIsError ==
  \A t \in Targets :
    (/\ pipeline_hash(PathOf(t)).ok /\ fetcher = "Cdn" /\ ~World(t).meta.fail
     /\ World(t).meta.code \notin 200..299 /\ World(t).meta.code # NOT_FOUND_CODE) =>
      /\ Len(task[t].dl) <= 1
      /\ task[t].scanned = <<>>
      /\ Drained(t) => ~task[t].got[1].ok

\* Does a link of an error chain carry this value as its formatted argument.
NamesValue(err, v) == \E i \in 1..Len(err) : err[i].arg = Some(v)

\* The descriptor the metadata of target t resolved to, if it did.
HasDescriptor(t) == IsSome(task[t].narinfo)
DescriptorOf(t) == task[t].narinfo[1]

\* C11 (as claimed): a target whose descriptor names a compression other
\* than xz, and whose archive download answered, ends as a per-target error
\* whose message names that compression, with no entry scanned.
C11_UnsupportedCompressionNamed ==
  \A t \in Targets :
    (/\ HasDescriptor(t) /\ DescriptorOf(t).compression # XZ
     /\ Fetcher_download(fetcher, World(t).nar).ok
     /\ Drained(t)) =>
      /\ ~task[t].got[1].ok
      /\ NamesValue(task[t].got[1].err, DescriptorOf(t).compression)
      /\ task[t].scanned = <<>>

\* Is the command line one that main refuses in pre-flight: no target, the
\* cost guard, no pattern, or a rule set that does not compile.
PreflightAbort ==
  \/ Len(paths) = 0
  \/ /\ Len(paths) >= PATHS_COUNT_AWS_THRESHOLD
     /\ ~flags.allow_possibly_expensive_run
     /\ region # NIX_CACHE_REGION
  \/ ~IsSome(flags.needle) /\ ~IsSome(flags.yara_ruleset)
  \/ ~IsSome(flags.needle) /\ IsSome(flags.yara_ruleset)
       /\ ~YaraMatcher_new(flags.yara_ruleset[1]).ok

C13_LimitIsPositive ==
  mainPc = "engine" => flags.parallelism >= 1

\* C14 (as claimed): for each drained target the output holds exactly one
\* result line when the outcome is a success with matches, exactly one error
\* line when it is an error, and no line when it is a success without
\* matches; nothing is printed for a target not drained.
C14_OneLinePerOutcome ==
  \A t \in Targets :
    /\ ~Drained(t) => task[t].out = <<>>
    /\ Drained(t) =>
         LET got == task[t].got[1]
             out == task[t].out
         IN /\ (got.ok /\ ~MultiMap_is_empty(got.val.files_matched)) =>
                 Len(out) = 1 /\ IsFoundLine(out[1]) /\ out[1].nlines = 1
            /\ ~got.ok =>
                 Len(out) = 1 /\ IsErrorLine(out[1]) /\ out[1].nlines = 1
            /\ (got.ok /\ MultiMap_is_empty(got.val.files_matched)) => out = <<>>

\* The entries of the archive served for target t.
EntriesOf(t) == World(t).nar.body.entries

\* The tags the matcher of the run returns for entry i of target t.
TagsOf(t, i) == matches(matcher[1], EntriesOf(t)[i].data, EntriesOf(t)[i].scanFails).val

\* Did the pipeline of target t succeed after decoding an archive.
ScannedOk(t) == Drained(t) /\ task[t].got[1].ok /\ Len(task[t].dl) = 2

\* C15: the MatchResult of a target whose pipeline succeeded has exactly the
\* member paths of the file entries with a non-empty match result as keys,
\* each with exactly the tags returned for that file; every file entry and
\* no directory or symlink entry was handed to the matcher.
C15_MatchResultContent ==
  \A t \in Targets :
    /\ \A k \in 1..Len(task[t].scanned) : EntriesOf(t)[task[t].scanned[k]].kind = "File"
    /\ ScannedOk(t) =>
         LET fm == task[t].got[1].val.files_matched
             files == {i \in 1..Len(EntriesOf(t)) : EntriesOf(t)[i].kind = "File"}
         IN /\ {task[t].scanned[k] : k \in 1..Len(task[t].scanned)} = files
            /\ DOMAIN fm = {EntriesOf(t)[i].path[1] : i \in {j \in files : TagsOf(t, j) # <<>>}}
            /\ \A i \in files :
                 TagsOf(t, i) # <<>> => fm[EntriesOf(t)[i].path[1]] = TagsOf(t, i)

\* C15 witness: a target with a directory, a symlink and two matching files,
\* one of them matched by two rules, was drained with two keys.
C15_Witness_TwoFilesSeveralTags ==
  \E t \in Targets :
    /\ ScannedOk(t)
    /\ \E i \in 1..Len(EntriesOf(t)) : EntriesOf(t)[i].kind = "Directory"
    /\ \E i \in 1..Len(EntriesOf(t)) : EntriesOf(t)[i].kind = "Symlink"
    /\ Cardinality(DOMAIN task[t].got[1].val.files_matched) = 2
    /\ \E p \in DOMAIN task[t].got[1].val.files_matched :
         Len(task[t].got[1].val.files_matched[p]) = 2

\* The part of path p after the root prefix, if p starts with it.
HasRootPrefix(p) ==
  Len(p) >= Len(NIX_STORE_PREFIX) /\ SubSeq(p, 1, Len(NIX_STORE_PREFIX)) = NIX_STORE_PREFIX
AfterRoot(p) == SubSeq(p, Len(NIX_STORE_PREFIX) + 1, Len(p))
HasHyphen(s) == \E i \in 1..Len(s) : s[i] = "-"

\* C16: for the path of every target, when the path is the root prefix, a
\* hyphen-free h, a hyphen and a rest, the derived hash is h and the metadata
\* asked for is that of h; when the path lacks the root prefix or has no
\* hyphen after it, derivation fails, the target ends as a per-target error
\* and no download is issued for it.
C16_HashFromPath ==
  \A t \in Targets :
    LET p == PathOf(t)
    IN /\ (HasRootPrefix(p) /\ HasHyphen(AfterRoot(p))) =>
            \A i \in 1..Len(AfterRoot(p)) :
              (AfterRoot(p)[i] = "-" /\ ~HasHyphen(SubSeq(AfterRoot(p), 1, i - 1))) =>
                /\ hash_from_path(p) = Ok(SubSeq(AfterRoot(p), 1, i - 1))
                /\ Started(t) =>
                     /\ Len(task[t].dl) >= 1
                     /\ task[t].dl[1].key = narinfo_key(SubSeq(AfterRoot(p), 1, i - 1))
       /\ (~HasRootPrefix(p) \/ ~HasHyphen(AfterRoot(p))) =>
            /\ ~hash_from_path(p).ok
            /\ task[t].dl = <<>> /\ ~Running(t)
            /\ IsSome(task[t].res) => ~task[t].res[1].ok
            /\ Drained(t) => ~task[t].got[1].ok

\* C16 witness: a typed path with the hash "a" and two hyphens was run to
\* its end on the metadata of "a".
C16_Witness_TypedPath ==
  \E t \in Targets :
    /\ paths[t] > NKinds /\ Drained(t) /\ task[t].got[1].ok
    /\ HasRootPrefix(PathOf(t))
    /\ task[t].dl[1].key = narinfo_key(<<"a">>)
    /\ Cardinality({i \in 1..Len(PathOf(t)) : PathOf(t)[i] = "-"}) = 2

\* C14 (amended): for each drained target the output holds exactly one
\* result report, of one line, when the outcome is a success with matches;
\* exactly one error report when it is an error, of one or several lines
\* (the message, then its causes); and nothing when it is a success without
\* matches or the target is not drained.
C14_OneReportPerOutcome ==
  \A t \in Targets :
    /\ ~Drained(t) => task[t].out = <<>>
    /\ Drained(t) =>
         LET got == task[t].got[1]
             out == task[t].out
         IN /\ (got.ok /\ ~MultiMap_is_empty(got.val.files_matched)) =>
                 /\ Len(out) = 1 /\ IsFoundLine(out[1]) /\ out[1].nlines = 1
                 /\ out[1].path = Some(PathOf(t))
                 /\ out[1].files_matched = got.val.files_matched
            /\ ~got.ok =>
                 /\ Len(out) = 1 /\ IsErrorLine(out[1])
                 /\ out[1].err = got.err
                 /\ out[1].nlines >= 1
            /\ (got.ok /\ MultiMap_is_empty(got.val.files_matched)) => out = <<>>

\* C14 witness: a batch ended with a target reported as found, one reported
\* as an error over several lines and one, without matches, not reported.
C14_Witness_ThreeOutcomes ==
  /\ BatchOver
  /\ \E t \in Targets : Len(task[t].out) = 1 /\ IsFoundLine(task[t].out[1])
  /\ \E t \in Targets : Len(task[t].out) = 1 /\ IsErrorLine(task[t].out[1])
                          /\ task[t].out[1].nlines > 1
  /\ \E t \in Targets : task[t].got[1].ok /\ task[t].out = <<>>

\* ------------------------------------------------------------------ C17
ProbeLines == [i \in 1..Len(probe[1].choice) |-> LinePool[probe[1].choice[i]]]
HasKey(l, key) == Len(l) >= Len(key) /\ SubSeq(l, 1, Len(key)) = key
ValueOf(l, key) == SubSeq(l, Len(key) + 1, Len(l))
NarinfoKeys == {URL_KEY, COMPRESSION_KEY, NARSIZE_KEY}
KeyMissing(ls) == \E key \in NarinfoKeys : \A i \in 1..Len(ls) : ~HasKey(ls[i], key)
LastValue(ls, key) ==
  ValueOf(ls[CHOOSE i \in 1..Len(ls) :
                HasKey(ls[i], key) /\ \A j \in (i + 1)..Len(ls) : ~HasKey(ls[j], key)], key)
IsUnsignedDecimal(v) == Len(v) >= 1 /\ \A i \in 1..Len(v) : IsDigit(v[i])
Unsigned(v) == IF Len(v) >= 1 /\ Head(v) = "+" THEN Tail(v) ELSE v
FitsUsize(v) == IsUnsignedDecimal(Unsigned(v)) /\ BigLeq(StripZeros(Unsigned(v)), USIZE_MAX)
Recognized(c) == \E key \in NarinfoKeys : HasKey(LinePool[c], key)

\* C17: parse_narinfo fails when one of the keys URL, Compression, NarSize is
\* missing or when a NarSize value is not an unsigned decimal integer;
\* otherwise it succeeds with a descriptor of values found in the text; the
\* lines with other keys do not change the result.
C17_ParseNarinfo ==
  (IsSome(probe) /\ probe[1].called) =>
    LET ls == ProbeLines
        ret == probe[1].ret
        badSize == \E i \in 1..Len(ls) :
                     HasKey(ls[i], NARSIZE_KEY) /\ ~IsUnsignedDecimal(ValueOf(ls[i], NARSIZE_KEY))
    IN /\ ret.ok = ~(KeyMissing(ls) \/ badSize)
       /\ ret.ok =>
            /\ \E i \in 1..Len(ls) : HasKey(ls[i], URL_KEY) /\ ret.val.nar_url = ValueOf(ls[i], URL_KEY)
            /\ \E i \in 1..Len(ls) : /\ HasKey(ls[i], COMPRESSION_KEY)
                                      /\ ret.val.compression = ValueOf(ls[i], COMPRESSION_KEY)
            /\ \E i \in 1..Len(ls) : /\ HasKey(ls[i], NARSIZE_KEY)
                                      /\ ret.val.nar_size = StripZeros(ValueOf(ls[i], NARSIZE_KEY))
       /\ ret = parse_narinfo(JoinLines(SelectSeq(probe[1].choice, Recognized), 1))

\* C17 (amended): parse_narinfo fails when one of the keys is missing or
\* when the value of a NarSize line is not an optional "+" followed by
\* decimal digits of a number up to usize::MAX; otherwise it succeeds with
\* the value of the last line of each key, NarSize as that number; the lines
\* with other keys do not change the result.
C17_ParseNarinfoUsize ==
  (IsSome(probe) /\ probe[1].called) =>
    LET ls == ProbeLines
        ret == probe[1].ret
        badSize == \E i \in 1..Len(ls) :
                     HasKey(ls[i], NARSIZE_KEY) /\ ~FitsUsize(ValueOf(ls[i], NARSIZE_KEY))
    IN /\ ret.ok = ~(KeyMissing(ls) \/ badSize)
       /\ ret.ok =>
            /\ ret.val.nar_url = LastValue(ls, URL_KEY)
            /\ ret.val.compression = LastValue(ls, COMPRESSION_KEY)
            /\ ret.val.nar_size = StripZeros(Unsigned(LastValue(ls, NARSIZE_KEY)))
       /\ ret = parse_narinfo(JoinLines(SelectSeq(probe[1].choice, Recognized), 1))

\* C17 witness: a text with the three keys, a signed NarSize and a line of
\* another key was parsed into a descriptor.
C17_Witness_SignedSizeParsed ==
  /\ IsSome(probe) /\ probe[1].called /\ probe[1].ret.ok
  /\ \E i, j \in 1..Len(probe[1].choice) : probe[1].choice[i] = 4 /\ probe[1].choice[j] = 7

\* ------------------------------------------------------------------ C18
\* What the cache answers to the metadata download of target t lets
\* fetch_narinfo return a descriptor.
MetaResolves(t) ==
  /\ ~World(t).meta.fail
  /\ IF fetcher = "Cdn" THEN World(t).meta.code # NOT_FOUND_CODE
     ELSE World(t).meta.code \in 200..299
  /\ World(t).meta.body.utf8
  /\ parse_narinfo(World(t).meta.body.text).ok

\* The archive of target t downloads, decompresses and is accepted.
NarAccepted(t) ==
  /\ ~World(t).nar.fail
  /\ (fetcher = "S3" => World(t).nar.code \in 200..299)
  /\ DescriptorOf(t).compression = XZ
  /\ World(t).nar.body.xzOk /\ World(t).nar.body.narOk /\ World(t).nar.body.entriesOk

\* Entry j of target t is passed by the loop without an error.
EntryPasses(t, j) ==
  LET entry == EntriesOf(t)[j]
  IN /\ entry.ok
     /\ entry.kind = "File" =>
          /\ entry.readOk /\ ~entry.scanFails
          /\ (TagsOf(t, j) # <<>> => IsSome(entry.path))

Ended(t) == task[t].st \in {"finished", "drained"}

\* C18: the steps of one pipeline are sequential and each needs the success
\* of the one before: a metadata download is issued only for a path whose
\* hash was derived, an archive download only when the metadata resolved to a
\* descriptor, an entry is matched only in an accepted archive and only when
\* every entry before it passed; a pipeline that ended issues no download
\* and matches nothing more.
C18_StepsSequential ==
  /\ [](\A t \in Targets :
         /\ Len(task[t].dl) <= 2
         /\ Len(task[t].dl) >= 1 =>
              /\ Started(t)
              /\ HasRootPrefix(PathOf(t)) /\ HasHyphen(AfterRoot(PathOf(t)))
         /\ Len(task[t].dl) = 2 =>
              /\ task[t].st # "narinfo"
              /\ MetaResolves(t) /\ HasDescriptor(t)
              /\ task[t].dl[2].key = DescriptorOf(t).nar_url
         /\ task[t].scanned # <<>> =>
              /\ Ended(t) /\ Len(task[t].dl) = 2 /\ NarAccepted(t)
              /\ \A k \in 1..Len(task[t].scanned) :
                   /\ task[t].scanned[k] \in 1..Len(EntriesOf(t))
                   /\ EntriesOf(t)[task[t].scanned[k]].kind = "File"
                   /\ \A j \in 1..(task[t].scanned[k] - 1) : EntryPasses(t, j)
                   /\ k > 1 => task[t].scanned[k - 1] < task[t].scanned[k])
  /\ [][\A t \in Targets :
         /\ Ended(t) => task'[t].dl = task[t].dl /\ task'[t].scanned = task[t].scanned
         /\ Len(task'[t].dl) <= Len(task[t].dl) + 1
         /\ SubSeq(task'[t].dl, 1, Len(task[t].dl)) = task[t].dl]_vars

\* C18 witness: one target ended in an error at its metadata, with one
\* download, and one ended in an error inside its archive, having matched an
\* entry and left a later file entry unmatched.
C18_Witness_StoppedAtFirstFailure ==
  \E t, u \in Targets :
    /\ Drained(t) /\ ~task[t].got[1].ok /\ Len(task[t].dl) = 1
    /\ Drained(u) /\ ~task[u].got[1].ok /\ task[u].scanned # <<>>
    /\ \E j \in 1..Len(EntriesOf(u)) :
         /\ EntriesOf(u)[j].kind = "File"
         /\ j > task[u].scanned[Len(task[u].scanned)]

\* ------------------------------------------------------------------ C19
\* C19: results are drained as the pipelines complete: with a limit of 2 or
\* more, and whether or not the downloads of the first target ever answer,
\* every later target is started, drained and reported.
C19_CompletionOrder ==
  (mainPc = "engine" /\ flags.parallelism >= 2)
    ~> (\A u \in Targets \ {1} : Drained(u) /\ task[u].out = report(task[u].got[1]))

\* C19 witness: the first target is still in flight, a later target was
\* drained and one submitted after that one has been started.
C19_Witness_LaterDrainedFirstInFlight ==
  /\ 1 \in Targets /\ Running(1)
  /\ \E u, v \in Targets : 1 < u /\ u < v /\ Drained(u) /\ Started(v)

\* ------------------------------------------------------------------ C20
\* The metadata object of target t is not in the bucket (the store answers
\* 403 or 404 for it).
MetaAbsent(t) == ~World(t).meta.fail /\ World(t).meta.code \in {NOT_FOUND_CODE, 404}

\* C20: with the object store selected, a download that does not fail gives
\* the status 200; no pipeline ends in success without an archive download
\* (fetch_narinfo never returned None); and a target whose metadata object is
\* absent ends as an error, reported as one, with no archive download.
C20_ObjectStoreNeverNotFound ==
  fetcher = "S3" =>
    \A t \in Targets :
      /\ \A remote \in {World(t).meta, World(t).nar} :
           Fetcher_download(fetcher, remote).ok =>
             Fetcher_download(fetcher, remote).val[1] = S3_OK_CODE
      /\ (IsSome(task[t].res) /\ task[t].res[1].ok) => Len(task[t].dl) = 2
      /\ (MetaAbsent(t) /\ pipeline_hash(PathOf(t)).ok) =>
           /\ task[t].st # "nar" /\ Len(task[t].dl) <= 1
           /\ IsSome(task[t].res) => ~task[t].res[1].ok
           /\ Drained(t) =>
                /\ ~task[t].got[1].ok
                /\ Len(task[t].out) = 1 /\ IsErrorLine(task[t].out[1])

\* C20 witness: in a run on the object store a target whose metadata object
\* answers 403 was drained as an error.
C20_Witness_AbsentIsError ==
  /\ fetcher = "S3"
  /\ \E t \in Targets :
       /\ World(t).meta.code = NOT_FOUND_CODE /\ ~World(t).meta.fail
       /\ pipeline_hash(PathOf(t)).ok
       /\ Drained(t) /\ ~task[t].got[1].ok /\ Len(task[t].dl) = 1
====
